---- MODULE Spec2Model ----
(***************************************************************************)
(* Job lifecycle of the serverless AI image pipeline:                      *)
(*   receiver  (handlers/reciver_lambda.js)   POST /generate               *)
(*   responder (handlers/responder_lambda.js, lines 1-114)  GET /status    *)
(*   worker    (handlers/responder_lambda.js, lines 115-435) SQS consumer  *)
(* The DynamoDB table, the SQS queue and the S3 bucket are the shared      *)
(* state.  Time is counted in units of 5 minutes (300000 ms).              *)
(***************************************************************************)
EXTENDS Integers, Sequences, FiniteSets, TLC

\* ------------------------------------------------------------------ bounds
\* What the environment does at most: jobs submitted, messages handed to worker
\* invocations, advances of the clock, and the three of them together.
MaxJobs == 2
MaxDeliveries == 2
MaxTicks == 2
MaxEvents == 4

\* One more than is ever submitted: a jobId that is never created.
JobIds == 1..(MaxJobs + 1)
\* Every invocation is handed at least one message.
Workers == 1..MaxDeliveries

\* ------------------------------------------------------- program constants
\* PRESIGNED_URL_EXPIRY = 3600 s, in units of 5 minutes
PRESIGNED_URL_EXPIRY == 12
\* the responder's safety margin, 300000 ms, in units of 5 minutes
RenewMargin == 1
\* the receiver's ttl, 86400 s, in units of 5 minutes
TtlSeconds == 288

\* The amounts by which the clock is advanced between two steps: one margin,
\* one link lifetime less a margin, one link lifetime, one retention period.
TickSteps == {RenewMargin, PRESIGNED_URL_EXPIRY - RenewMargin, PRESIGNED_URL_EXPIRY,
              TtlSeconds}

\* ------------------------------------------------------------- value sets
\* An attribute that is not set is "" (strings), Absent (numbers) or
\* NoUrl (presigned links).
Absent == -1
NoUrl == << >>

\* productUrl values of a request body.  JSON values that are not strings are
\* written with a leading '#'.
GoodUrl == "https://example.com/widget"
\* A test that lets the empty string pass.
FalsyButEmptyString == {"#undefined", "#null", "#0", "#false"}

Falsy == {"", "#undefined", "#null", "#0", "#false"}
Truthy(v) == v \notin Falsy

\* Leading bytes of the image the synthesis call returns (decoded), and the
\* empty result.
JpegBytes == <<255, 216, 255, 224>>
PngBytes == <<137, 80, 78, 71>>
GifBytes == <<71, 73, 70, 56>>
ImageSamples == {JpegBytes, PngBytes, GifBytes}

\* What scrapeProductPage returns (the fields the worker stores).
PageContents == { [productName |-> "Widget", price |-> "$9.99", offer |-> "ON SALE"] }
NoPage == [productName |-> "", price |-> "", offer |-> ""]

\* Messages of the errors the collaborators throw.
ScrapeErrors == {"timeout of 10000ms exceeded"}
SynthErrors == {"429 Rate limit exceeded"}
\* A worker that reports the missing image in other words.
OtherNoImageError == "Image generation failed"
NoImageError == "No image returned from AI"
S3Error == "S3 unavailable"
DdbError == "DynamoDB unavailable"
SqsError == "SQS unavailable"
JsonError == "Unexpected token u in JSON"

\* ------------------------------------------------------------------ hex
HexDigit(n) == CASE n = 0 -> "0" [] n = 1 -> "1" [] n = 2 -> "2" [] n = 3 -> "3"
                 [] n = 4 -> "4" [] n = 5 -> "5" [] n = 6 -> "6" [] n = 7 -> "7"
                 [] n = 8 -> "8" [] n = 9 -> "9" [] n = 10 -> "a" [] n = 11 -> "b"
                 [] n = 12 -> "c" [] n = 13 -> "d" [] n = 14 -> "e" [] n = 15 -> "f"

\* imageBuffer.toString('hex', 0, 4): one digit per half byte of the first
\* four bytes (fewer when the buffer is shorter), as a sequence of digits.
RECURSIVE HexOf(_)
HexOf(bytes) ==
  IF bytes = << >> THEN << >>
  ELSE <<HexDigit(Head(bytes) \div 16), HexDigit(Head(bytes) % 16)>> \o HexOf(Tail(bytes))

FileSignature(imageBuffer) ==
  HexOf(SubSeq(imageBuffer, 1, IF Len(imageBuffer) < 4 THEN Len(imageBuffer) ELSE 4))

StartsWith(s, prefix) ==
  /\ Len(s) >= Len(prefix)
  /\ SubSeq(s, 1, Len(prefix)) = prefix

\* A detection that knows JPEG only.
AlwaysJpeg(imageBuffer) == [extension |-> "jpg", contentType |-> "image/jpeg"]

\* The worker's format detection: extension and content type.
DetectFormat(imageBuffer) ==
  LET fileSignature == FileSignature(imageBuffer) IN
  IF StartsWith(fileSignature, <<"f", "f", "d", "8">>)
    THEN [extension |-> "jpg", contentType |-> "image/jpeg"]
  ELSE IF StartsWith(fileSignature, <<"8", "9", "5", "0">>)
    THEN [extension |-> "png", contentType |-> "image/png"]
  ELSE [extension |-> "jpg", contentType |-> "image/jpeg"]

\* A key made of the extension only.
FileNameOfFormat(jobId, extension) == <<0, extension>>

\* `${jobId}.${extension}`, as the pair of its two parts.
FileName(jobId, extension) == <<jobId, extension>>
NoFile == << >>

\* getSignedUrl(s3Client, GetObjectCommand{Key}, {expiresIn}): the link names
\* the key, the signing time and the lifetime.
SignedUrl(key, at) == <<key, at, PRESIGNED_URL_EXPIRY>>


\* ------------------------------------------------------------------ state
VARIABLES
  now,        \* Date.now(), in units of 5 minutes
  ticks,      \* how many times the clock was advanced
  table,      \* the DynamoDB table: jobId -> item
  queue,      \* the SQS queue: the messages not yet deleted
  bucket,     \* the S3 bucket: the keys that hold an object
  nextId,     \* the next jobId randomUUID() yields
  delivered,  \* how many messages were handed to worker invocations
  rpc,        \* receiver: where the running invocation stands
  rjob,       \* receiver: the jobId and productUrl of the running invocation
  wpc,        \* worker invocation -> where it stands
  batch,      \* worker invocation -> event.Records
  idx,        \* worker invocation -> index of the record being processed
  local,      \* worker invocation -> pageContent, imageBuffer, presignedUrl, err
  outcome,    \* worker invocation -> per record, how its processing ended
  lastRead,   \* what the last 200 response of the responder said
  wroteSince, \* a worker wrote the item of that response since
  event       \* the step taken last and the response it returned

vars == <<now, ticks, table, queue, bucket, nextId, delivered, rpc, rjob, wpc, batch, idx,
          local, outcome, lastRead, wroteSince, event>>

\* An item of the table.  present = FALSE: no item under this key.
NoItem ==
  [present |-> FALSE, productUrl |-> "", status |-> "", createdAt |-> Absent,
   ttl |-> Absent, imageUrl |-> NoUrl, fileName |-> NoFile, productName |-> "",
   price |-> "", offer |-> "", overlayText |-> "", contentType |-> "",
   completedAt |-> Absent, expiresAt |-> Absent, error |-> "", failedAt |-> Absent]

NoLocal == [pageContent |-> NoPage, imageBuffer |-> << >>, presignedUrl |-> NoUrl,
            err |-> ""]

NoResp == [code |-> 0]
NoRead == [jobId |-> 0, status |-> "", imageUrl |-> NoUrl, urlExpiresAt |-> 0]
NoEvent == [op |-> "init", job |-> 0, s3 |-> FALSE, resp |-> NoResp]

\* The events of the environment so far.
Spent == (nextId - 1) + delivered + ticks

Init ==
  /\ now = 1
  /\ ticks = 0
  /\ table = [j \in JobIds |-> NoItem]
  /\ queue = {}
  /\ bucket = {}
  /\ nextId = 1
  /\ delivered = 0
  /\ rpc = "idle"
  /\ rjob = [jobId |-> 0, productUrl |-> ""]
  /\ wpc = [w \in Workers |-> "idle"]
  /\ batch = [w \in Workers |-> << >>]
  /\ idx = [w \in Workers |-> 0]
  /\ local = [w \in Workers |-> NoLocal]
  /\ outcome = [w \in Workers |-> << >>]
  /\ lastRead = NoRead
  /\ wroteSince = FALSE
  /\ event = NoEvent

\* --------------------------------------------------------------- the clock
Tick ==
  /\ ticks < MaxTicks
  /\ Spent < MaxEvents
  /\ \E d \in TickSteps : now' = now + d
  /\ ticks' = ticks + 1
  /\ event' = [op |-> "tick", job |-> 0, s3 |-> FALSE, resp |-> NoResp]
  /\ UNCHANGED <<delivered, table, queue, bucket, nextId, rpc, rjob, wpc, batch, idx,
                 local, outcome, lastRead, wroteSince>>


\* ----------------------------------------------------------- the receiver
\* Request bodies: no body at all, or a JSON object whose productUrl is one of
\* these values ("#undefined": the field is missing; "#5": the number 5).
ProductUrls == {GoodUrl, "", "#undefined", "#0", "#5"}

\* A step's label: the operation, the job, whether it called S3, the response.
Ev(op, job, s3) == [op |-> op, job |-> job, s3 |-> s3, resp |-> NoResp]
Answer(op, job, s3, resp) == [op |-> op, job |-> job, s3 |-> s3, resp |-> resp]

\* JSON.parse(event.body) throws when there is no body: the catch answers 500.
SubmitNoBody ==
  /\ rpc = "idle"
  /\ event' = Answer("submit", 0, FALSE, [code |-> 500, error |-> JsonError])
  /\ UNCHANGED <<delivered, now, ticks, table, queue, bucket, nextId, rpc, rjob, wpc, batch,
                 idx, local, outcome, lastRead, wroteSince>>

\* if (!productUrl) return 400
SubmitRejected(productUrl) ==
  /\ rpc = "idle"
  /\ ~Truthy(productUrl)
  /\ event' = Answer("submit", 0, FALSE,
                     [code |-> 400, message |-> "Missing productUrl field"])
  /\ UNCHANGED <<delivered, now, ticks, table, queue, bucket, nextId, rpc, rjob, wpc, batch,
                 idx, local, outcome, lastRead, wroteSince>>

\* A receiver that names the first status differently.
NewItemQueued(productUrl, at) ==
  [NoItem EXCEPT !.present = TRUE, !.productUrl = productUrl, !.status = "queued",
                 !.createdAt = at, !.ttl = at + TtlSeconds]

\* The item the PutCommand writes.
NewItem(productUrl, at) ==
  [NoItem EXCEPT !.present = TRUE, !.productUrl = productUrl, !.status = "pending",
                 !.createdAt = at, !.ttl = at + TtlSeconds]

\* A receiver that sends the message first and leaves the put for later.
SubmitPutDeferred(productUrl) ==
  /\ rpc = "idle"
  /\ Truthy(productUrl)
  /\ nextId <= MaxJobs
  /\ Spent < MaxEvents
  /\ rjob' = [jobId |-> nextId, productUrl |-> productUrl]
  /\ rpc' = "send"
  /\ event' = Ev("put", nextId, FALSE)
  /\ UNCHANGED <<delivered, now, ticks, table, nextId, queue, bucket, wpc, batch, idx, local,
                 outcome, lastRead, wroteSince>>

\* jobId = randomUUID(); await docClient.send(new PutCommand(...))
SubmitPut(productUrl) ==
  /\ rpc = "idle"
  /\ Truthy(productUrl)
  /\ nextId <= MaxJobs
  /\ Spent < MaxEvents
  /\ table' = [table EXCEPT ![nextId] = NewItem(productUrl, now)]
  /\ rjob' = [jobId |-> nextId, productUrl |-> productUrl]
  /\ nextId' = nextId + 1
  /\ rpc' = "send"
  /\ event' = Ev("put", nextId, FALSE)
  /\ UNCHANGED <<delivered, now, ticks, queue, bucket, wpc, batch, idx, local, outcome,
                 lastRead, wroteSince>>

\* The PutCommand is rejected: the catch answers 500, nothing was written.
SubmitPutFails(productUrl) ==
  /\ rpc = "idle"
  /\ Truthy(productUrl)
  /\ event' = Answer("submit", 0, FALSE, [code |-> 500, error |-> DdbError])
  /\ UNCHANGED <<delivered, now, ticks, table, queue, bucket, nextId, rpc, rjob, wpc, batch, idx,
                 local, outcome, lastRead, wroteSince>>

\* await sqsClient.send(new SendMessageCommand(...)); return 202
SubmitSend ==
  /\ rpc = "send"
  /\ queue' = queue \cup {rjob}
  /\ rpc' = "idle"
  /\ event' = Answer("send", rjob.jobId, FALSE, [code |-> 202, jobId |-> rjob.jobId])
  /\ UNCHANGED <<delivered, now, ticks, table, bucket, nextId, rjob, wpc, batch, idx, local,
                 outcome, lastRead, wroteSince>>

\* A send that reports a failure although the queue took the message.
SubmitSendFailsAfterEnqueue ==
  /\ rpc = "send"
  /\ rpc' = "idle"
  /\ queue' = queue \cup {rjob}
  /\ event' = Answer("submit", rjob.jobId, FALSE, [code |-> 500, error |-> SqsError])
  /\ UNCHANGED <<delivered, now, ticks, table, bucket, nextId, rjob, wpc, batch, idx,
                 local, outcome, lastRead, wroteSince>>

\* The SendMessageCommand is rejected: the catch answers 500, the item stays.
SubmitSendFails ==
  /\ rpc = "send"
  /\ rpc' = "idle"
  /\ event' = Answer("submit", rjob.jobId, FALSE, [code |-> 500, error |-> SqsError])
  /\ UNCHANGED <<delivered, now, ticks, table, queue, bucket, nextId, rjob, wpc, batch, idx,
                 local, outcome, lastRead, wroteSince>>

\* DynamoDB's time-to-live: an item whose ttl has passed may be deleted.
Purge(j) ==
  /\ table[j].present
  /\ table[j].ttl # Absent
  /\ now >= table[j].ttl
  /\ table' = [table EXCEPT ![j] = NoItem]
  /\ event' = Ev("purge", j, FALSE)
  /\ UNCHANGED <<delivered, now, ticks, queue, bucket, nextId, rpc, rjob, wpc, batch, idx,
                 local, outcome, lastRead, wroteSince>>


\* ------------------------------------------------------------- the worker
\* updateJobStatus: SET #status = :status and every entry of additionalData,
\* by an UpdateCommand with no condition.  It leaves the other attributes as
\* they are and creates the item when there is none.
UpdateJobStatus(item, status, additionalData) ==
  [f \in DOMAIN item |->
     IF f = "present" THEN TRUE
     ELSE IF f = "status" THEN status
     ELSE IF f \in DOMAIN additionalData THEN additionalData[f]
     ELSE item[f]]

NoData == [x \in {} |-> 0]

\* A completed write that also stamps createdAt.
CompletedDataStamped(presignedUrl, fileName, pageContent, contentType, at) ==
  [imageUrl |-> presignedUrl, fileName |-> fileName,
   productName |-> pageContent.productName, price |-> pageContent.price,
   offer |-> pageContent.offer, contentType |-> contentType,
   completedAt |-> at, expiresAt |-> at + PRESIGNED_URL_EXPIRY, createdAt |-> at]

\* additionalData of the completed write.
CompletedData(presignedUrl, fileName, pageContent, contentType, at) ==
  [imageUrl |-> presignedUrl, fileName |-> fileName,
   productName |-> pageContent.productName, price |-> pageContent.price,
   offer |-> pageContent.offer, contentType |-> contentType,
   completedAt |-> at, expiresAt |-> at + PRESIGNED_URL_EXPIRY]

\* A failed write that stores no message.
FailedDataNoMessage(message, at) == [error |-> "", failedAt |-> at]

\* additionalData of the failed write.
FailedData(message, at) == [error |-> message, failedAt |-> at]

Msg(w) == batch[w][idx[w]]
\* A worker that takes the jobId from the wrong place.
JobShifted(w) == Msg(w).jobId + 1

Job(w) == Msg(w).jobId

\* The batches an invocation can be handed: different messages of the queue,
\* in any order.
Min(a, b) == IF a < b THEN a ELSE b

Batches ==
  { b \in UNION { [1..n -> queue] :
                    n \in 1..Min(MaxDeliveries - delivered, MaxEvents - Spent) } :
      \A i, k \in DOMAIN b : i # k => b[i] # b[k] }

\* The event source hands the invocation a batch.  The messages stay in the
\* queue until the invocation returns: a second invocation can be handed the
\* same message (at-least-once delivery).
Invoke(w, b) ==
  /\ wpc[w] = "idle"
  /\ \A v \in Workers : v < w => wpc[v] # "idle"
  /\ b \in Batches
  /\ batch' = [batch EXCEPT ![w] = b]
  /\ delivered' = delivered + Len(b)
  /\ idx' = [idx EXCEPT ![w] = 1]
  /\ wpc' = [wpc EXCEPT ![w] = "processing"]
  /\ event' = Ev("invoke", b[1].jobId, FALSE)
  /\ UNCHANGED <<now, ticks, table, queue, bucket, nextId, rpc, rjob, local,
                 outcome, lastRead, wroteSince>>

\* The same throw with no try/catch around the loop body: the exception leaves
\* the handler.
ThrowUncaught(w, message) ==
  /\ wpc' = [wpc EXCEPT ![w] = "threw"]
  /\ local' = [local EXCEPT ![w].err = message]

\* throw inside the try: control goes to the catch with err.message.
Throw(w, message) ==
  /\ wpc' = [wpc EXCEPT ![w] = "catch"]
  /\ local' = [local EXCEPT ![w].err = message]

\* A first write with the condition that the item is pending.
WriteProcessingIfPending(w) ==
  /\ wpc[w] = "processing"
  /\ table' = IF table[Job(w)].status = "pending"
                THEN [table EXCEPT ![Job(w)] = UpdateJobStatus(@, "processing", NoData)]
                ELSE table
  /\ wroteSince' = (wroteSince \/ lastRead.jobId = Job(w))
  /\ wpc' = [wpc EXCEPT ![w] = "scrape"]
  /\ event' = Ev("processing", Job(w), FALSE)
  /\ UNCHANGED <<delivered, now, ticks, queue, bucket, nextId, rpc, rjob, batch, idx,
                 local, outcome, lastRead>>

\* await updateJobStatus(jobId, "processing")
WriteProcessing(w) ==
  /\ wpc[w] = "processing"
  /\ table' = [table EXCEPT ![Job(w)] = UpdateJobStatus(@, "processing", NoData)]
  /\ wroteSince' = (wroteSince \/ lastRead.jobId = Job(w))
  /\ wpc' = [wpc EXCEPT ![w] = "scrape"]
  /\ event' = Ev("processing", Job(w), FALSE)
  /\ UNCHANGED <<delivered, now, ticks, queue, bucket, nextId, rpc, rjob, batch, idx,
                 local, outcome, lastRead>>

WriteProcessingFails(w) ==
  /\ wpc[w] = "processing"
  /\ Throw(w, DdbError)
  /\ event' = Ev("throw", Job(w), FALSE)
  /\ UNCHANGED <<delivered, now, ticks, table, queue, bucket, nextId, rpc, rjob, batch,
                 idx, outcome, lastRead, wroteSince>>

\* pageContent = await scrapeProductPage(productUrl).  axios cannot fetch a
\* productUrl that is not a string.
Scrape(w, pageContent) ==
  /\ wpc[w] = "scrape"
  /\ Msg(w).productUrl = GoodUrl
  /\ pageContent \in PageContents
  /\ local' = [local EXCEPT ![w].pageContent = pageContent]
  /\ wpc' = [wpc EXCEPT ![w] = "synth"]
  /\ event' = Ev("scrape", Job(w), FALSE)
  /\ UNCHANGED <<delivered, now, ticks, table, queue, bucket, nextId, rpc, rjob, batch,
                 idx, outcome, lastRead, wroteSince>>

ScrapeFails(w, message) ==
  /\ wpc[w] = "scrape"
  /\ message \in ScrapeErrors
  /\ Throw(w, message)
  /\ event' = Ev("throw", Job(w), FALSE)
  /\ UNCHANGED <<delivered, now, ticks, table, queue, bucket, nextId, rpc, rjob, batch,
                 idx, outcome, lastRead, wroteSince>>

\* response = await client.responses.create(...); imageData is the first
\* image_generation_call result; imageBuffer = Buffer.from(imageData, "base64")
Synth(w, imageBuffer) ==
  /\ wpc[w] = "synth"
  /\ imageBuffer \in ImageSamples
  /\ local' = [local EXCEPT ![w].imageBuffer = imageBuffer]
  /\ wpc' = [wpc EXCEPT ![w] = "upload"]
  /\ event' = Ev("synth", Job(w), FALSE)
  /\ UNCHANGED <<delivered, now, ticks, table, queue, bucket, nextId, rpc, rjob, batch,
                 idx, outcome, lastRead, wroteSince>>

\* if (!imageData) throw new Error("No image returned from AI")
SynthNoImage(w) ==
  /\ wpc[w] = "synth"
  /\ Throw(w, NoImageError)
  /\ event' = Ev("throw", Job(w), FALSE)
  /\ UNCHANGED <<delivered, now, ticks, table, queue, bucket, nextId, rpc, rjob, batch,
                 idx, outcome, lastRead, wroteSince>>

SynthFails(w, message) ==
  /\ wpc[w] = "synth"
  /\ message \in SynthErrors
  /\ Throw(w, message)
  /\ event' = Ev("throw", Job(w), FALSE)
  /\ UNCHANGED <<delivered, now, ticks, table, queue, bucket, nextId, rpc, rjob, batch,
                 idx, outcome, lastRead, wroteSince>>

\* What the worker derives from the image: extension, contentType, fileName.
Extension(w) == DetectFormat(local[w].imageBuffer).extension
ContentType(w) == DetectFormat(local[w].imageBuffer).contentType
WorkerFileName(w) == FileName(Job(w), Extension(w))

\* A worker that goes on to the signing without the upload.
UploadSkipped(w) ==
  /\ wpc[w] = "upload"
  /\ wpc' = [wpc EXCEPT ![w] = "presign"]
  /\ event' = Ev("upload", Job(w), TRUE)
  /\ UNCHANGED <<delivered, now, ticks, table, queue, bucket, nextId, rpc, rjob, batch, idx,
                 local, outcome, lastRead, wroteSince>>

\* await s3Client.send(new PutObjectCommand({Key: fileName, ...}))
Upload(w) ==
  /\ wpc[w] = "upload"
  /\ bucket' = bucket \cup {WorkerFileName(w)}
  /\ wpc' = [wpc EXCEPT ![w] = "presign"]
  /\ event' = Ev("upload", Job(w), TRUE)
  /\ UNCHANGED <<delivered, now, ticks, table, queue, nextId, rpc, rjob, batch, idx,
                 local, outcome, lastRead, wroteSince>>

UploadFails(w) ==
  /\ wpc[w] = "upload"
  /\ Throw(w, S3Error)
  /\ event' = Ev("throw", Job(w), TRUE)
  /\ UNCHANGED <<delivered, now, ticks, table, queue, bucket, nextId, rpc, rjob, batch,
                 idx, outcome, lastRead, wroteSince>>

\* presignedUrl = await getSignedUrl(s3Client, getObjectCommand, {expiresIn})
Presign(w) ==
  /\ wpc[w] = "presign"
  /\ local' = [local EXCEPT ![w].presignedUrl = SignedUrl(WorkerFileName(w), now)]
  /\ wpc' = [wpc EXCEPT ![w] = "complete"]
  /\ event' = Ev("presign", Job(w), TRUE)
  /\ UNCHANGED <<delivered, now, ticks, table, queue, bucket, nextId, rpc, rjob, batch,
                 idx, outcome, lastRead, wroteSince>>

PresignFails(w) ==
  /\ wpc[w] = "presign"
  /\ Throw(w, S3Error)
  /\ event' = Ev("throw", Job(w), TRUE)
  /\ UNCHANGED <<delivered, now, ticks, table, queue, bucket, nextId, rpc, rjob, batch,
                 idx, outcome, lastRead, wroteSince>>

\* A loop that ends at the first failed record: the handler returns and the
\* rest of the batch is deleted with it.
NextRecordStopsAtFailure(w, how) ==
  /\ outcome' = [outcome EXCEPT ![w] = Append(@, how)]
  /\ local' = [local EXCEPT ![w] = NoLocal]
  /\ IF idx[w] < Len(batch[w]) /\ how # "failed"
       THEN /\ idx' = [idx EXCEPT ![w] = @ + 1]
            /\ wpc' = [wpc EXCEPT ![w] = "processing"]
            /\ queue' = queue
       ELSE /\ idx' = idx
            /\ wpc' = [wpc EXCEPT ![w] = "returned"]
            /\ queue' = queue \ {batch[w][i] : i \in DOMAIN batch[w]}

\* The for loop goes on to the next record; after the last one the handler
\* returns and the event source deletes the batch from the queue.
NextRecord(w, how) ==
  /\ outcome' = [outcome EXCEPT ![w] = Append(@, how)]
  /\ local' = [local EXCEPT ![w] = NoLocal]
  /\ IF idx[w] < Len(batch[w])
       THEN /\ idx' = [idx EXCEPT ![w] = @ + 1]
            /\ wpc' = [wpc EXCEPT ![w] = "processing"]
            /\ queue' = queue
       ELSE /\ idx' = idx
            /\ wpc' = [wpc EXCEPT ![w] = "returned"]
            /\ queue' = queue \ {batch[w][i] : i \in DOMAIN batch[w]}

\* await updateJobStatus(jobId, "completed", {...})
WriteCompleted(w) ==
  /\ wpc[w] = "complete"
  /\ table' = [table EXCEPT ![Job(w)] =
       UpdateJobStatus(@, "completed",
         CompletedData(local[w].presignedUrl, WorkerFileName(w), local[w].pageContent,
                       ContentType(w), now))]
  /\ wroteSince' = (wroteSince \/ lastRead.jobId = Job(w))
  /\ NextRecord(w, "completed")
  /\ event' = Answer("completed", Job(w), FALSE,
                     [code |-> 0, imageBuffer |-> local[w].imageBuffer])
  /\ UNCHANGED <<delivered, now, ticks, bucket, nextId, rpc, rjob, batch, lastRead>>

WriteCompletedFails(w) ==
  /\ wpc[w] = "complete"
  /\ Throw(w, DdbError)
  /\ event' = Ev("throw", Job(w), FALSE)
  /\ UNCHANGED <<delivered, now, ticks, table, queue, bucket, nextId, rpc, rjob, batch,
                 idx, outcome, lastRead, wroteSince>>

\* A catch that writes failed and throws the error again.
WriteFailedRethrows(w) ==
  /\ wpc[w] = "catch"
  /\ table' = [table EXCEPT ![Job(w)] =
       UpdateJobStatus(@, "failed", FailedData(local[w].err, now))]
  /\ wroteSince' = (wroteSince \/ lastRead.jobId = Job(w))
  /\ wpc' = [wpc EXCEPT ![w] = "threw"]
  /\ outcome' = [outcome EXCEPT ![w] = Append(@, "failed")]
  /\ local' = [local EXCEPT ![w] = NoLocal]
  /\ event' = Answer("failed", Job(w), FALSE, [code |-> 0, error |-> local[w].err])
  /\ UNCHANGED <<delivered, now, ticks, queue, bucket, nextId, rpc, rjob, batch, idx,
                 lastRead>>

\* A catch that only logs: the loop goes on and nothing is written.
WriteFailedSkipped(w) ==
  /\ wpc[w] = "catch"
  /\ NextRecord(w, "failed")
  /\ event' = Answer("failed", Job(w), FALSE, [code |-> 0, error |-> local[w].err])
  /\ UNCHANGED <<delivered, now, ticks, table, bucket, nextId, rpc, rjob, batch, lastRead,
                 wroteSince>>

\* catch (err): await updateJobStatus(jobId, "failed", {error, failedAt})
WriteFailed(w) ==
  /\ wpc[w] = "catch"
  /\ table' = [table EXCEPT ![Job(w)] =
       UpdateJobStatus(@, "failed", FailedData(local[w].err, now))]
  /\ wroteSince' = (wroteSince \/ lastRead.jobId = Job(w))
  /\ NextRecord(w, "failed")
  /\ event' = Answer("failed", Job(w), FALSE, [code |-> 0, error |-> local[w].err])
  /\ UNCHANGED <<delivered, now, ticks, bucket, nextId, rpc, rjob, batch, lastRead>>

\* The write in the catch is rejected: the exception leaves the handler, the
\* rest of the batch is not processed and no message is deleted.
WriteFailedFails(w) ==
  /\ wpc[w] = "catch"
  /\ wpc' = [wpc EXCEPT ![w] = "threw"]
  /\ outcome' = [outcome EXCEPT ![w] = Append(@, "threw")]
  /\ local' = [local EXCEPT ![w] = NoLocal]
  /\ event' = Answer("escape", Job(w), FALSE, [code |-> 0, error |-> local[w].err])
  /\ UNCHANGED <<delivered, now, ticks, table, queue, bucket, nextId, rpc, rjob, batch,
                 idx, lastRead, wroteSince>>


\* ---------------------------------------------------------- the responder
\* const urlExpiresAt = job.expiresAt || 0
UrlExpiresAt(job) == IF job.expiresAt = Absent THEN 0 ELSE job.expiresAt

\* A test that looks at the link only.
NeedsRenewalWhenAbsent(job, at) == job.imageUrl = NoUrl

\* The same test with <= for <.
NeedsRenewalAtMargin(job, at) ==
  \/ job.imageUrl = NoUrl
  \/ UrlExpiresAt(job) <= at + RenewMargin

\* if (!job.imageUrl || urlExpiresAt < (now + 300000))
NeedsRenewal(job, at) ==
  \/ job.imageUrl = NoUrl
  \/ UrlExpiresAt(job) < at + RenewMargin

\* A renewal that does not look for the key.
RegeneratesWithoutKey(job, at) == NeedsRenewal(job, at)

\* The renewal branch that calls getSignedUrl.
Regenerates(job, at) == NeedsRenewal(job, at) /\ job.fileName # NoFile

\* A responder that always answers with what the item holds.
StoredLink(job, at) == [imageUrl |-> job.imageUrl, urlExpiresAt |-> UrlExpiresAt(job)]

\* The link and the expiry the responder puts into the response.
FreshLink(job, at) ==
  IF Regenerates(job, at)
    THEN [imageUrl |-> SignedUrl(job.fileName, at),
          urlExpiresAt |-> at + PRESIGNED_URL_EXPIRY]
    ELSE [imageUrl |-> job.imageUrl, urlExpiresAt |-> UrlExpiresAt(job)]

\* The response object, by the status of the item.
ResponseBody(jobId, job, at) ==
  LET base == [jobId |-> jobId, status |-> job.status, createdAt |-> job.createdAt] IN
  IF job.status = "completed" THEN
    [jobId |-> jobId, status |-> job.status, createdAt |-> job.createdAt,
     imageUrl |-> FreshLink(job, at).imageUrl,
     urlExpiresAt |-> FreshLink(job, at).urlExpiresAt,
     overlayText |-> job.overlayText, contentType |-> job.contentType,
     completedAt |-> job.completedAt, fileName |-> job.fileName]
  ELSE IF job.status = "failed" THEN
    [jobId |-> jobId, status |-> job.status, createdAt |-> job.createdAt,
     error |-> job.error, failedAt |-> job.failedAt]
  ELSE IF job.status = "processing" THEN
    [jobId |-> jobId, status |-> job.status, createdAt |-> job.createdAt,
     message |-> "Image generation in progress"]
  ELSE base

\* What is kept of a response to compare the next one with.
Remembered(body) ==
  [jobId |-> body.jobId, status |-> body.status,
   imageUrl |-> IF body.status = "completed" THEN body.imageUrl ELSE NoUrl,
   urlExpiresAt |-> IF body.status = "completed" THEN body.urlExpiresAt ELSE 0]

\* A responder that stores the renewed link with a PutCommand of the key, the
\* link and its expiry.
TableAfterReadPut(jobId, job, at) ==
  IF job.status = "completed" /\ Regenerates(job, at)
    THEN [table EXCEPT ![jobId] =
            [NoItem EXCEPT !.present = TRUE,
                           !.imageUrl = FreshLink(job, at).imageUrl,
                           !.expiresAt = FreshLink(job, at).urlExpiresAt]]
    ELSE table

\* What the responder does to the table when it answers for an item: nothing
\* (it imports GetCommand only).
TableAfterRead(jobId, job, at) == table

\* GET /status/{jobId}: the item is found.
Found(j) ==
  /\ table[j].present
  /\ event' = Answer("read", j,
                     table[j].status = "completed" /\ Regenerates(table[j], now),
                     [code |-> 200, body |-> ResponseBody(j, table[j], now)])
  /\ table' = TableAfterRead(j, table[j], now)
  /\ UNCHANGED <<delivered, now, ticks, queue, bucket, nextId, rpc, rjob, wpc, batch,
                 idx, local, outcome>>

Read(j) ==
  /\ Found(j)
  /\ UNCHANGED <<lastRead, wroteSince>>

\* The same request from a client that keeps the response to compare the next
\* one with.
Poll(j) ==
  /\ Found(j)
  /\ lastRead' = Remembered(event'.resp.body)
  /\ wroteSince' = FALSE

\* if (!result.Item) return 404
ReadNotFound(j) ==
  /\ ~table[j].present
  /\ j <= nextId
  /\ event' = Answer("read", j, FALSE, [code |-> 404, message |-> "Job not found"])
  /\ UNCHANGED <<delivered, now, ticks, table, queue, bucket, nextId, rpc, rjob, wpc,
                 batch, idx, local, outcome, lastRead, wroteSince>>

\* if (!jobId) return 400
ReadNoId ==
  /\ event' = Answer("read", 0, FALSE, [code |-> 400, message |-> "Missing jobId"])
  /\ UNCHANGED <<delivered, now, ticks, table, queue, bucket, nextId, rpc, rjob, wpc,
                 batch, idx, local, outcome, lastRead, wroteSince>>

\* The GetCommand is rejected: the catch answers 500.
ReadGetFails(j) ==
  /\ j <= nextId
  /\ event' = Answer("read", 0, FALSE, [code |-> 500, error |-> DdbError])
  /\ UNCHANGED <<delivered, now, ticks, table, queue, bucket, nextId, rpc, rjob, wpc,
                 batch, idx, local, outcome, lastRead, wroteSince>>

\* getSignedUrl is rejected in the renewal branch: the catch answers 500.
ReadPresignFails(j) ==
  /\ table[j].present
  /\ table[j].status = "completed"
  /\ Regenerates(table[j], now)
  /\ event' = Answer("read", j, TRUE, [code |-> 500, error |-> S3Error])
  /\ UNCHANGED <<delivered, now, ticks, table, queue, bucket, nextId, rpc, rjob, wpc,
                 batch, idx, local, outcome, lastRead, wroteSince>>

\* ------------------------------------------------------- specifications
\* The steps of the pipeline: the clock, a submission that is accepted, the
\* retention of DynamoDB, the worker.  The collaborators of the worker (scrape,
\* synthesis, S3) may fail; DynamoDB and SQS accept every call.
Pipeline ==
  \/ Tick
  \/ \E u \in ProductUrls : SubmitPut(u)
  \/ SubmitSend
  \/ \E j \in JobIds : Purge(j)
  \/ \E w \in Workers :
       \/ \E b \in Batches : Invoke(w, b)
       \/ WriteProcessing(w)
       \/ \E c \in PageContents : Scrape(w, c)
       \/ \E m \in ScrapeErrors : ScrapeFails(w, m)
       \/ \E i \in ImageSamples : Synth(w, i)
       \/ SynthNoImage(w)
       \/ \E m \in SynthErrors : SynthFails(w, m)
       \/ Upload(w) \/ UploadFails(w)
       \/ Presign(w) \/ PresignFails(w)
       \/ WriteCompleted(w)
       \/ WriteFailed(w)

\* The requests that leave the tables as they are.
Requests ==
  \/ SubmitNoBody
  \/ \E u \in ProductUrls : SubmitRejected(u)
  \/ \E j \in JobIds : Read(j) \/ ReadNotFound(j)
  \/ ReadNoId

\* The calls DynamoDB, SQS and the presigner reject.
Faults ==
  \/ \E u \in ProductUrls : SubmitPutFails(u)
  \/ SubmitSendFails
  \/ \E j \in JobIds : ReadGetFails(j) \/ ReadPresignFails(j)
  \/ \E w \in Workers :
       \/ WriteProcessingFails(w)
       \/ WriteCompletedFails(w)
       \/ WriteFailedFails(w)

Next == Pipeline \/ Requests

NextFaulty == Pipeline \/ Requests \/ Faults

NextPolling == Pipeline \/ \E j \in JobIds : Poll(j)

\* The three handlers with DynamoDB, SQS and the presigner available.
Spec == Init /\ [][Next]_vars

\* The same with calls that are rejected.
SpecFaulty == Init /\ [][NextFaulty]_vars

\* The pipeline and one client that polls the status.
SpecPolling == Init /\ [][NextPolling]_vars


\* The pipeline with a receiver whose put or send may be rejected.
NextSubmitting ==
  \/ Pipeline
  \/ \E u \in ProductUrls : SubmitPutFails(u)
  \/ SubmitSendFails

SpecSubmitting == Init /\ [][NextSubmitting]_vars

\* The responder alone, over the items a table may hold under one key: any
\* status, with or without a link, an expiry and a key.
StoredKey == FileName(1, "jpg")

StoredItems ==
  { [NoItem EXCEPT !.present = TRUE, !.status = s, !.createdAt = 1,
                   !.ttl = 1 + TtlSeconds, !.imageUrl = u, !.expiresAt = e,
                   !.fileName = f] :
      s \in {"pending", "processing", "completed", "failed"},
      u \in {NoUrl, SignedUrl(StoredKey, 1)},
      e \in {Absent, 1 + PRESIGNED_URL_EXPIRY},
      f \in {NoFile, StoredKey} }

InitStored ==
  /\ now = 1
  /\ ticks = 0
  /\ \E item \in StoredItems : table = [j \in JobIds |-> IF j = 1 THEN item ELSE NoItem]
  /\ queue = {}
  /\ bucket = {}
  /\ nextId = 2
  /\ delivered = 0
  /\ rpc = "idle"
  /\ rjob = [jobId |-> 0, productUrl |-> ""]
  /\ wpc = [w \in Workers |-> "idle"]
  /\ batch = [w \in Workers |-> << >>]
  /\ idx = [w \in Workers |-> 0]
  /\ local = [w \in Workers |-> NoLocal]
  /\ outcome = [w \in Workers |-> << >>]
  /\ lastRead = NoRead
  /\ wroteSince = FALSE
  /\ event = NoEvent

NextResponder ==
  \/ Tick
  \/ \E j \in JobIds : Read(j) \/ ReadNotFound(j) \/ ReadPresignFails(j)
  \/ ReadNoId

SpecResponder == InitStored /\ [][NextResponder]_vars

\* ================================================================ properties
\* The position of a status in the lifecycle.
Rank(status) ==
  IF status = "pending" THEN 1
  ELSE IF status = "processing" THEN 2
  ELSE IF status \in {"completed", "failed"} THEN 3
  ELSE 0

Terminal == {"completed", "failed"}

\* C1: of two consecutive reads of one job, the later one never returns a
\* status that comes earlier in the lifecycle than what the earlier one
\* returned (pending < processing < completed / failed).
C1_ReadsNeverGoBack ==
  [][ (lastRead.jobId # 0 /\ lastRead'.jobId = lastRead.jobId)
        => Rank(lastRead'.status) >= Rank(lastRead.status) ]_vars

\* C2: a write changes the status of an item only from pending to processing,
\* from processing to completed or from processing to failed; a completed or
\* failed status is never rewritten.
StatusEdges ==
  { <<"pending", "processing">>, <<"processing", "completed">>,
    <<"processing", "failed">> }

C2_OnlyLifecycleEdges ==
  [][ \A j \in JobIds :
        (table[j].present /\ table'[j].present /\ table'[j].status # table[j].status)
          => <<table[j].status, table'[j].status>> \in StatusEdges ]_vars

\* How the processing of the records an invocation has left behind ended.
Ended(w) == wpc[w] \in {"returned", "threw"}

PipelineErrors == ScrapeErrors \cup SynthErrors \cup {NoImageError}

\* C4: when the scrape or the synthesis of an attempt fails, the attempt goes
\* to the catch and ends with the item at status failed with that (non-empty)
\* error message, not at processing.
C4_FailureIsRecorded ==
  /\ \A w \in Workers : local[w].err # "" => wpc[w] = "catch"
  /\ (event.op \in {"failed", "escape"} /\ event.resp.error \in PipelineErrors) =>
       /\ table[event.job].status = "failed"
       /\ table[event.job].error # ""
       /\ table[event.job].error = event.resp.error

\* An attempt whose synthesis returned no image has just ended.
C4_Witness ==
  /\ event.op = "failed"
  /\ event.resp.error = NoImageError
  /\ table[event.job].status = "failed"
  /\ table[event.job].error = NoImageError

\* The extension and the content type by the two leading bytes.
LeadingBytes(imageBuffer) == SubSeq(imageBuffer, 1, 2)

ExtensionOfBytes(imageBuffer) ==
  IF LeadingBytes(imageBuffer) = <<255, 216>> THEN "jpg"
  ELSE IF LeadingBytes(imageBuffer) = <<137, 80>> THEN "png"
  ELSE "jpg"

ContentTypeOfBytes(imageBuffer) ==
  IF LeadingBytes(imageBuffer) = <<137, 80>> THEN "image/png" ELSE "image/jpeg"

\* C5: when scrape, synthesis, upload and presigning succeed, the attempt ends
\* with the item at status completed, with a link, an expiry later than the
\* time of the write, and the key <jobId>.<ext> with ext jpg for FFD8, png for
\* 8950 and jpg for anything else, and the matching content type.
C5_SuccessIsRecorded ==
  event.op = "completed" =>
    LET item == table[event.job]
        bytes == event.resp.imageBuffer
    IN /\ item.status = "completed"
       /\ item.imageUrl # NoUrl
       /\ item.expiresAt > now
       /\ item.fileName = <<event.job, ExtensionOfBytes(bytes)>>
       /\ item.contentType = ContentTypeOfBytes(bytes)
       /\ item.fileName \in bucket

\* An attempt that was given a PNG has just ended.
C5_Witness ==
  /\ event.op = "completed"
  /\ event.resp.imageBuffer = PngBytes
  /\ table[event.job].fileName = <<event.job, "png">>
  /\ table[event.job].contentType = "image/png"

\* The attempts on a job: the records of the batches that name it.
AttemptsOn(j) ==
  { a \in Workers \X (1..MaxDeliveries) :
      a[2] \in DOMAIN batch[a[1]] /\ batch[a[1]][a[2]].jobId = j }

Finished(a) == a[2] <= Len(outcome[a[1]])

\* C6: when a message was delivered more than once and every attempt on its
\* job has finished, in whatever order their writes were made, the status of
\* the item is completed or failed and is the outcome of one of the attempts.
C6_DuplicateDeliveryEndsTerminal ==
  \A j \in JobIds :
    ( /\ table[j].present
      /\ Cardinality(AttemptsOn(j)) >= 2
      /\ \A a \in AttemptsOn(j) : Finished(a) )
    => /\ table[j].status \in Terminal
       /\ \E a \in AttemptsOn(j) : outcome[a[1]][a[2]] = table[j].status

\* Two attempts on one job have finished, one completed and one failed, and
\* the failed one wrote last.
C6_Witness ==
  \E j \in JobIds :
    /\ Cardinality(AttemptsOn(j)) >= 2
    /\ \A a \in AttemptsOn(j) : Finished(a)
    /\ {outcome[a[1]][a[2]] : a \in AttemptsOn(j)} = Terminal
    /\ table[j].status = "failed"
    /\ table[j].imageUrl # NoUrl

\* The attributes only a completed write sets, and those only a failed write
\* sets.
HasCompletedFields(item) ==
  \/ item.imageUrl # NoUrl
  \/ item.fileName # NoFile
  \/ item.contentType # ""
  \/ item.completedAt # Absent
  \/ item.expiresAt # Absent

HasFailedFields(item) == item.error # "" \/ item.failedAt # Absent

\* C7: an item never mixes the fields of different attempts: a failed item has
\* no link, key or completion time, a completed item has no error or failure
\* time, and a pending or processing item has none of them.
C7_NoMixedFields ==
  \A j \in JobIds :
    table[j].present =>
      /\ table[j].status = "failed" => ~HasCompletedFields(table[j])
      /\ table[j].status = "completed" => ~HasFailedFields(table[j])
      /\ table[j].status \in {"pending", "processing"} =>
           ~HasCompletedFields(table[j]) /\ ~HasFailedFields(table[j])

\* C8: when a read of a completed job signs a new link, the item holds the new
\* link and the new expiry once the read has answered.
C8_RenewalIsStored ==
  (event.op = "read" /\ event.resp.code = 200 /\ event.s3) =>
    /\ table[event.job].imageUrl = event.resp.body.imageUrl
    /\ table[event.job].expiresAt = event.resp.body.urlExpiresAt

\* C9: two consecutive reads of a completed job with no worker write between
\* them, the second made more than the margin before the expiry the first
\* one returned, return the same link.
C9_SameLinkWithinWindow ==
  [][ ( /\ lastRead.jobId # 0
        /\ lastRead'.jobId = lastRead.jobId
        /\ event'.op = "read"
        /\ lastRead.status = "completed"
        /\ lastRead'.status = "completed"
        /\ ~wroteSince
        /\ now < lastRead.urlExpiresAt - RenewMargin )
      => lastRead'.imageUrl = lastRead.imageUrl ]_vars

\* C10: a read of a completed job whose item holds a link that expires no
\* sooner than the margin after the read answers with the stored link and the
\* stored expiry, signs nothing and writes nothing.
C10_FreshLinkIsReturned ==
  [][ \A j \in JobIds :
        ( /\ event'.op = "read"
          /\ event'.job = j
          /\ event'.resp.code = 200
          /\ table[j].present
          /\ table[j].status = "completed"
          /\ table[j].imageUrl # NoUrl
          /\ table[j].expiresAt >= now + RenewMargin )
        => /\ event'.resp.body.imageUrl = table[j].imageUrl
           /\ event'.resp.body.urlExpiresAt = table[j].expiresAt
           /\ ~event'.s3
           /\ table' = table
           /\ bucket' = bucket ]_vars

\* A read was answered from the item exactly one margin before the stored
\* link expires.
C10_Witness ==
  /\ event.op = "read"
  /\ event.resp.code = 200
  /\ table[event.job].status = "completed"
  /\ table[event.job].expiresAt = now + RenewMargin
  /\ event.resp.body.imageUrl = table[event.job].imageUrl
  /\ event.resp.body.urlExpiresAt = table[event.job].expiresAt
  /\ ~event.s3

\* C11: a read of a completed job that has a key, made when the item holds no
\* link or its expiry is less than the margin after the read, answers with a
\* link signed at the read for that key, expiring one link lifetime after the
\* read, and not with the stored link.
C11_StaleLinkIsRenewed ==
  [][ \A j \in JobIds :
        ( /\ event'.op = "read"
          /\ event'.job = j
          /\ event'.resp.code = 200
          /\ table[j].present
          /\ table[j].status = "completed"
          /\ table[j].fileName # NoFile
          /\ \/ table[j].imageUrl = NoUrl
             \/ table[j].expiresAt < now + RenewMargin )
        => /\ event'.s3
           /\ event'.resp.body.imageUrl = SignedUrl(table[j].fileName, now)
           /\ event'.resp.body.urlExpiresAt = now + PRESIGNED_URL_EXPIRY
           /\ event'.resp.body.imageUrl # table[j].imageUrl ]_vars

\* A read was answered with a new link exactly when the stored one had a
\* margin less a tick to live.
C11_Witness ==
  /\ event.op = "read"
  /\ event.resp.code = 200
  /\ event.s3
  /\ table[event.job].status = "completed"
  /\ table[event.job].expiresAt < now + RenewMargin
  /\ event.resp.body.urlExpiresAt = now + PRESIGNED_URL_EXPIRY
  /\ event.resp.body.imageUrl = SignedUrl(table[event.job].fileName, now)

\* C12: every 200 response that says completed carries a link and an expiry
\* at least the margin after the read.
C12_CompletedReadHasValidLink ==
  (event.op = "read" /\ event.resp.code = 200 /\ event.resp.body.status = "completed") =>
    /\ event.resp.body.imageUrl # NoUrl
    /\ event.resp.body.urlExpiresAt > now
    /\ event.resp.body.urlExpiresAt >= now + RenewMargin

\* A completed job was read after its stored link had expired and after a
\* second delivery had been processed.
C12_Witness ==
  /\ event.op = "read"
  /\ event.resp.code = 200
  /\ event.resp.body.status = "completed"
  /\ table[event.job].expiresAt <= now
  /\ event.resp.body.urlExpiresAt > now
  /\ Cardinality(AttemptsOn(event.job)) >= 2

\* An item without its link and the expiry of the link.
OtherFields(item) == [f \in (DOMAIN item) \ {"imageUrl", "expiresAt"} |-> item[f]]

\* C13: a read that fails (the get or the signing is rejected) answers 500
\* and leaves the table as it was; no read, whatever it answers, changes any
\* field of any item other than the link and its expiry.
C13_ReadsLeaveTheRecord ==
  [][ event'.op = "read" =>
        /\ \A j \in JobIds : OtherFields(table'[j]) = OtherFields(table[j])
        /\ event'.resp.code \in {200, 400, 404, 500}
        /\ event'.resp.code # 200 => table' = table
        /\ event'.resp.code \notin {200, 400, 404} =>
             /\ event'.resp.code = 500
             /\ event'.resp.error \in {DdbError, S3Error} ]_vars

\* The signing for a completed job whose link had to be renewed was rejected
\* and the read answered 500.
C13_Witness ==
  /\ event.op = "read"
  /\ event.resp.code = 500
  /\ event.resp.error = S3Error
  /\ table[event.job].status = "completed"
  /\ table[event.job].expiresAt < now + RenewMargin

\* C14: a jobId for which no PutCommand of the receiver ever succeeded has no
\* item, whatever the workers did for other jobs, and a read of it answers 404.
C14_NeverSubmittedIsNotFound ==
  /\ \A j \in JobIds : j >= nextId => ~table[j].present
  /\ (event.op = "read" /\ event.job # 0 /\ event.job >= nextId) =>
       event.resp.code = 404

\* A jobId that was never submitted was read after a worker had processed
\* another job to the end.
C14_Witness ==
  /\ event.op = "read"
  /\ event.job >= nextId
  /\ event.resp.code = 404
  /\ \E w \in Workers : wpc[w] = "returned" /\ table[batch[w][1].jobId].present

\* A productUrl that is the empty string, or no productUrl in the body.
EmptyOrMissing == {"", "#undefined"}

\* C15: a submission whose productUrl is empty or missing is answered 400 with
\* the table and the queue unchanged: the receiver puts no item and sends no
\* message for such a productUrl, and none is ever in the table or the queue.
C15_RejectedSubmissionWritesNothing ==
  [][ /\ (event'.op = "submit" /\ event'.resp.code = 400) =>
           (table' = table /\ queue' = queue)
      /\ event'.op \in {"put", "send"} => rjob'.productUrl \notin EmptyOrMissing
      /\ \A m \in queue' : m.productUrl \notin EmptyOrMissing
      /\ \A j \in JobIds :
           (table'[j].present /\ table'[j].createdAt # Absent) =>
             table'[j].productUrl \notin EmptyOrMissing ]_vars

\* A submission was answered 400 while an item and a message of an earlier
\* submission were there.
C15_Witness ==
  /\ event.op = "submit"
  /\ event.resp.code = 400
  /\ queue # {}
  /\ \E j \in JobIds : table[j].present

\* The productUrl values that are not a non-empty string.
NotANonEmptyString == {"", "#undefined", "#null", "#0", "#false", "#5"}

\* C16: a request with no body, and a request whose productUrl is not a
\* non-empty string (missing, empty, a number), is answered 400: it is not
\* answered 500 and the receiver does not go on to put and send for it.
C16_InvalidInputIsRejected ==
  /\ (event.op = "submit" /\ "error" \in DOMAIN event.resp
        /\ event.resp.error = JsonError) => event.resp.code = 400
  /\ event.op \in {"put", "send"} => rjob.productUrl \notin NotANonEmptyString

\* The messages that are in the queue or in the batch of an invocation.
WorkItems == queue \cup UNION { {batch[w][i] : i \in DOMAIN batch[w]} : w \in Workers }

\* C17: the receiver puts the item before it sends the message: every message
\* in the queue or in a batch names a jobId whose PutCommand had succeeded,
\* and the item is there unless a retention period has gone by.
C17_RecordBeforeWorkItem ==
  \A m \in WorkItems :
    /\ m.jobId < nextId
    /\ ~table[m.jobId].present => now > TtlSeconds

\* A worker is about to make its first write for a job whose item is pending
\* while the message is still in the queue.
C17_Witness ==
  \E w \in Workers :
    /\ wpc[w] = "processing"
    /\ Msg(w) \in queue
    /\ table[Job(w)].present
    /\ table[Job(w)].status = "pending"

\* The last submission was answered 202 and this step is a read of its jobId.
ReadOfAccepted ==
  /\ event.op = "read"
  /\ rpc = "idle"
  /\ rjob.jobId # 0
  /\ event.job = rjob.jobId

\* No attempt on the job has made its first write.
NoAttemptWrote(j) ==
  \A a \in AttemptsOn(j) :
    \/ a[2] > idx[a[1]]
    \/ a[2] = idx[a[1]] /\ wpc[a[1]] = "processing"

\* C18 as stated: a read of the jobId of an accepted submission, made before
\* any time has gone by, answers pending with createdAt not after the read,
\* whatever the workers have done since the 202.
C18_ReadAfterSubmitIsPending ==
  (ReadOfAccepted /\ table[event.job].present /\ table[event.job].createdAt = now) =>
    /\ event.resp.code = 200
    /\ event.resp.body.status = "pending"
    /\ event.resp.body.createdAt <= now

\* C18, amended: a read of the jobId of an accepted submission, made while the
\* item of the submission is there, answers 200 with the createdAt of the item,
\* which is not after the read; the status is pending as long as no attempt of
\* a worker has made its first write for the job, and processing, completed or
\* failed once one has.
C18_ReadAfterSubmitFindsRecord ==
  (ReadOfAccepted /\ table[event.job].present /\ table[event.job].ttl # Absent) =>
    /\ event.resp.code = 200
    /\ event.resp.body.createdAt = table[event.job].createdAt
    /\ event.resp.body.createdAt <= now
    /\ NoAttemptWrote(event.job) => event.resp.body.status = "pending"
    /\ ~NoAttemptWrote(event.job) =>
         event.resp.body.status \in {"processing", "completed", "failed"}

\* The job of an accepted submission was read as pending while an invocation
\* that holds its message had not yet written.
C18_Witness ==
  /\ ReadOfAccepted
  /\ event.resp.code = 200
  /\ event.resp.body.status = "pending"
  /\ event.resp.body.createdAt = now
  /\ \E w \in Workers : wpc[w] = "processing" /\ Job(w) = event.job

\* The SendMessageCommand for the job has just been rejected.
SendFailed(j) ==
  /\ event.op = "submit"
  /\ event.job = j
  /\ event.resp.code = 500
  /\ event.resp.error = SqsError

\* There is no message for the job, and its item, if there, is pending.
RecordWithoutWorkItem(j) ==
  /\ \A m \in WorkItems : m.jobId # j
  /\ table[j].present => table[j].status = "pending"

\* C19: when the send is rejected after the put succeeded, the receiver
\* answers 500, and from then on there is no message for the job and its item
\* stays pending until retention removes it; a message without an item of a
\* put that succeeded never exists.
C19_FailedSendLeavesPendingRecord ==
  /\ [](\A m \in WorkItems : m.jobId < nextId)
  /\ [](event.op = "submit" /\ event.job # 0 => event.resp.code = 500)
  /\ \A j \in JobIds : [](SendFailed(j) => [](j < nextId /\ RecordWithoutWorkItem(j)))

\* The send for a job has just been rejected: its item is pending and there
\* is no message for it, while another job has a message.
C19_Witness ==
  \E j \in JobIds :
    /\ SendFailed(j)
    /\ table[j].present
    /\ table[j].status = "pending"
    /\ RecordWithoutWorkItem(j)
    /\ queue # {}

\* The descriptive fields the worker stores with a completed write.
DescriptiveFields == {"productName", "price", "offer"}

\* C20: a read of a completed job whose scrape gave a product name and a price
\* answers completed with the content type of the item, a link, the
\* descriptive fields the worker stored, and an overlay text that is not
\* empty.
C20_ReadReturnsDescriptiveFields ==
  ( /\ event.op = "read"
    /\ event.resp.code = 200
    /\ event.resp.body.status = "completed"
    /\ table[event.job].productName # ""
    /\ table[event.job].price # "" )
  => /\ event.resp.body.contentType = table[event.job].contentType
     /\ event.resp.body.imageUrl # NoUrl
     /\ event.resp.body.overlayText # ""
     /\ \A f \in DescriptiveFields :
          /\ f \in DOMAIN event.resp.body
          /\ event.resp.body[f] = table[event.job][f]

\* C21: when the synthesis answers without an image the attempt goes to the
\* catch with the message "No image returned from AI", uploads nothing and
\* signs nothing, and ends with the item failed with exactly that message; a
\* read of the item then answers failed with that message and no link.
C21_NoImageIsReported ==
  [][ /\ \A w \in Workers :
           /\ (wpc[w] = "synth" /\ wpc'[w] = "catch" /\ local'[w].err \notin SynthErrors) =>
                /\ local'[w].err = "No image returned from AI"
                /\ local'[w].presignedUrl = NoUrl
                /\ bucket' = bucket
                /\ ~event'.s3
           /\ (wpc[w] = "catch" /\ wpc'[w] # "catch"
                 /\ local[w].err = "No image returned from AI") =>
                /\ table'[Job(w)].status = "failed"
                /\ table'[Job(w)].error = "No image returned from AI"
                /\ local[w].presignedUrl = NoUrl
                /\ bucket' = bucket
                /\ ~event'.s3
      /\ \A j \in JobIds :
           ( /\ event'.op = "read"
             /\ event'.job = j
             /\ event'.resp.code = 200
             /\ table[j].status = "failed"
             /\ table[j].error = "No image returned from AI" )
           => /\ event'.resp.body.status = "failed"
              /\ event'.resp.body.error = "No image returned from AI"
              /\ "imageUrl" \notin DOMAIN event'.resp.body ]_vars

\* A job whose synthesis gave no image was read: failed, with the message,
\* and nothing is in the bucket.
C21_Witness ==
  /\ event.op = "read"
  /\ event.resp.code = 200
  /\ event.resp.body.status = "failed"
  /\ event.resp.body.error = "No image returned from AI"
  /\ bucket = {}
  /\ \E w \in Workers : wpc[w] = "returned" /\ outcome[w] = <<"failed">>

\* The failures of the scrape, the synthesis and the upload.
ProcessingErrors == PipelineErrors \cup {S3Error}

\* C22: a failure of the scrape, the synthesis or the upload is written to the
\* item as failed and does not leave the handler: with DynamoDB accepting the
\* writes no invocation ends by an exception, and the step out of the catch
\* writes failed with the message and goes on to the next record or returns,
\* in which case the messages of the batch leave the queue.
C22_FailureIsNotRaised ==
  [][ \A w \in Workers :
        /\ wpc'[w] # "threw"
        /\ (wpc[w] = "catch" /\ wpc'[w] # "catch") =>
             /\ local[w].err \in ProcessingErrors
             /\ table'[Job(w)].status = "failed"
             /\ table'[Job(w)].error = local[w].err
             /\ outcome'[w] = Append(outcome[w], "failed")
             /\ \/ wpc'[w] = "processing" /\ idx'[w] = idx[w] + 1
                \/ /\ wpc'[w] = "returned"
                   /\ idx[w] = Len(batch[w])
                   /\ \A i \in DOMAIN batch[w] : batch[w][i] \notin queue' ]_vars

\* An invocation returned after the upload of its only record had failed, and
\* its message is gone from the queue.
C22_Witness ==
  \E w \in Workers :
    /\ wpc[w] = "returned"
    /\ event.op = "failed"
    /\ event.resp.error = S3Error
    /\ outcome[w] = <<"failed">>
    /\ batch[w][1] \notin queue
    /\ table[batch[w][1].jobId].status = "failed"

\* The fields every response has.
BaseFields == {"jobId", "status", "createdAt"}

\* What the response of a read says, whatever the state of the item.
ShapeWithoutDescriptiveFields ==
  (event.op = "read" /\ event.resp.code = 200) =>
    LET body == event.resp.body IN
    /\ body.status = table[event.job].status
    /\ body.status = "pending" => DOMAIN body = BaseFields
    /\ body.status = "processing" => DOMAIN body = BaseFields \cup {"message"}
    /\ body.status = "failed" => DOMAIN body = BaseFields \cup {"error", "failedAt"}
    /\ body.status = "completed" =>
         /\ {"imageUrl", "urlExpiresAt", "contentType", "completedAt"} \subseteq DOMAIN body
         /\ "error" \notin DOMAIN body
         /\ "failedAt" \notin DOMAIN body

\* C23: the response has the fields of the status of the item and no others:
\* jobId, status and createdAt for pending, a message more for processing,
\* error and failedAt more for failed, and for completed the link, its expiry,
\* the content type, completedAt and the descriptive fields of the item; no
\* link unless completed and no error when completed, whatever the item holds.
C23_ResponseShapedByStatus ==
  /\ ShapeWithoutDescriptiveFields
  /\ ( /\ event.op = "read"
       /\ event.resp.code = 200
       /\ event.resp.body.status = "completed"
       /\ table[event.job].productName # "" )
     => \/ event.resp.body.overlayText # ""
        \/ \E f \in DescriptiveFields :
             f \in DOMAIN event.resp.body /\ event.resp.body[f] # ""

\* C24: the first write of an attempt sets the status of the item to
\* processing whatever the status was, and changes no other field of the item
\* and no other item.
C24_ProcessingWriteIsUnconditional ==
  [][ \A w \in Workers :
        (wpc[w] = "processing" /\ wpc'[w] # "processing") =>
          /\ wpc'[w] = "scrape"
          /\ table'[Job(w)].status = "processing"
          /\ table[Job(w)].present =>
               table' = [table EXCEPT ![Job(w)].status = "processing"] ]_vars

\* An attempt has just set a completed item to processing; the link and the
\* key of the item are as they were.
C24_Witness ==
  /\ event.op = "processing"
  /\ table[event.job].status = "processing"
  /\ table[event.job].imageUrl # NoUrl
  /\ table[event.job].completedAt # Absent

\* What the receiver writes of an item for good: productUrl, createdAt, ttl
\* (the jobId is the key).
CreationFields(item) ==
  [productUrl |-> item.productUrl, createdAt |-> item.createdAt, ttl |-> item.ttl]

\* C25: as long as an item is there, no write of a worker and no read changes
\* its productUrl, createdAt or ttl, and no item moves to another jobId.
C25_CreationFieldsNeverChange ==
  [][ \A j \in JobIds :
        (table[j].present /\ table'[j].present) =>
          CreationFields(table'[j]) = CreationFields(table[j]) ]_vars

\* An item completed later than it was created, after two deliveries, with
\* its createdAt and ttl as the receiver wrote them.
C25_Witness ==
  \E j \in JobIds :
    /\ table[j].status = "completed"
    /\ table[j].completedAt > table[j].createdAt
    /\ table[j].createdAt # Absent
    /\ table[j].ttl = table[j].createdAt + TtlSeconds
    /\ table[j].productUrl = GoodUrl
    /\ Cardinality(AttemptsOn(j)) >= 2

\* C26: every item in the table has a ttl, the time of its creation plus 24
\* hours, whatever its status and whoever wrote it, so that retention removes
\* it in the end.
C26_EveryRecordHasDeadline ==
  \A j \in JobIds :
    table[j].present =>
      /\ table[j].ttl # Absent
      /\ table[j].ttl = table[j].createdAt + TtlSeconds

\* C27: a read of a completed item that needs a new link but has no key
\* answers 200 with the link and the expiry the item holds, 0 for an expiry
\* that is not there, and calls S3 for nothing.
C27_NoKeyFallsBackToStored ==
  \A j \in JobIds :
    ( /\ event.op = "read"
      /\ event.job = j
      /\ table[j].present
      /\ table[j].status = "completed"
      /\ table[j].fileName = NoFile
      /\ \/ table[j].imageUrl = NoUrl
         \/ table[j].expiresAt = Absent
         \/ table[j].expiresAt < now + RenewMargin )
    => /\ event.resp.code = 200
       /\ event.resp.body.imageUrl = table[j].imageUrl
       /\ event.resp.body.urlExpiresAt =
            (IF table[j].expiresAt = Absent THEN 0 ELSE table[j].expiresAt)
       /\ ~event.s3

\* A completed item with a link, no expiry and no key was read.
C27_Witness ==
  /\ event.op = "read"
  /\ event.resp.code = 200
  /\ table[event.job].status = "completed"
  /\ table[event.job].fileName = NoFile
  /\ table[event.job].imageUrl # NoUrl
  /\ table[event.job].expiresAt = Absent
  /\ event.resp.body.urlExpiresAt = 0
  /\ event.resp.body.imageUrl = table[event.job].imageUrl

\* The invocations that have the image of their record.
HasImage(w) == wpc[w] \in {"upload", "presign", "complete"}

\* C28: the keys of different jobs are different, whatever the formats: the
\* key of an attempt is not the key of an attempt or of the item of another
\* job, and an upload leaves the objects of other jobs alone; two attempts on
\* one job that detect the same format have the same key.
C28_KeysAreNotShared ==
  [][ /\ \A v, w \in Workers :
           (HasImage(v) /\ HasImage(w)) =>
             /\ Job(v) # Job(w) => WorkerFileName(v) # WorkerFileName(w)
             /\ (Job(v) = Job(w) /\ Extension(v) = Extension(w)) =>
                  WorkerFileName(v) = WorkerFileName(w)
      /\ \A w \in Workers : \A j \in JobIds :
           (HasImage(w) /\ j # Job(w)) => table[j].fileName # WorkerFileName(w)
      /\ \A i, j \in JobIds :
           (i # j /\ table[i].fileName # NoFile) => table[i].fileName # table[j].fileName
      /\ \A w \in Workers :
           (wpc[w] = "upload" /\ wpc'[w] = "presign") =>
             /\ bucket' = bucket \cup {WorkerFileName(w)}
             /\ \A j \in JobIds :
                  j # Job(w) => WorkerFileName(w) \notin {<<j, "jpg">>, <<j, "png">>} ]_vars

\* Two jobs are completed with the same format and each has its own key in
\* the bucket.
C28_Witness ==
  \E i, j \in JobIds :
    /\ i # j
    /\ table[i].status = "completed"
    /\ table[j].status = "completed"
    /\ table[i].contentType = table[j].contentType
    /\ table[i].fileName # table[j].fileName
    /\ {table[i].fileName, table[j].fileName} \subseteq bucket

\* C29: the steps of an attempt come one after another: an attempt at the
\* synthesis has its page, at the upload its image, at the signing its object
\* in the bucket, at the completed write its link; so a completed item names a
\* key under which an object was uploaded.
C29_CompletedKeyWasUploaded ==
  /\ \A w \in Workers :
       /\ wpc[w] \in {"synth", "upload", "presign", "complete"} =>
            local[w].pageContent \in PageContents
       /\ wpc[w] \in {"upload", "presign", "complete"} =>
            local[w].imageBuffer \in ImageSamples
       /\ wpc[w] \in {"presign", "complete"} => WorkerFileName(w) \in bucket
       /\ wpc[w] = "complete" =>
            local[w].presignedUrl = SignedUrl(WorkerFileName(w), local[w].presignedUrl[2])
       /\ wpc[w] \in {"processing", "scrape"} => local[w] = NoLocal
       /\ wpc[w] \in {"processing", "scrape", "synth", "upload"} =>
            local[w].presignedUrl = NoUrl
  /\ \A j \in JobIds :
       (table[j].present /\ table[j].status = "completed") =>
         /\ table[j].fileName # NoFile
         /\ table[j].fileName \in bucket

\* A job was completed, purged after a retention period and completed again
\* by a late delivery: its item names the key in the bucket.
C29_Witness ==
  \E j \in JobIds :
    /\ table[j].status = "completed"
    /\ table[j].ttl = Absent
    /\ table[j].fileName \in bucket

\* C30: an invocation handed several records processes them one after another
\* in batch order, and a pipeline failure for one record does not stop the
\* later ones: every record gets its own processing write and its own terminal
\* write, and the handler returns only after the last record.
C30_BatchIsProcessedToTheEnd ==
  [][\A w \in Workers :
       /\ wpc[w] # "threw" /\ wpc'[w] # "threw"
       /\ wpc[w] \notin {"idle", "returned"} =>
            /\ idx[w] \in DOMAIN batch[w]
            /\ Len(outcome[w]) = idx[w] - 1
            /\ idx'[w] \in {idx[w], idx[w] + 1}
            /\ batch'[w] = batch[w]
       /\ (wpc[w] = "processing" /\ wpc'[w] # "processing") =>
            /\ wpc'[w] = "scrape"
            /\ table'[Job(w)].present
            /\ table'[Job(w)].status = "processing"
       /\ (wpc[w] \notin {"idle", "returned"} /\ outcome'[w] # outcome[w]) =>
            /\ wpc[w] \in {"complete", "catch"}
            /\ \E how \in Terminal :
                 /\ how = "completed" <=> wpc[w] = "complete"
                 /\ outcome'[w] = Append(outcome[w], how)
                 /\ table'[Job(w)].present
                 /\ table'[Job(w)].status = how
            /\ IF idx[w] < Len(batch[w])
                 THEN idx'[w] = idx[w] + 1 /\ wpc'[w] = "processing"
                 ELSE idx'[w] = idx[w] /\ wpc'[w] = "returned"
       /\ (wpc[w] \notin {"idle", "returned"} /\ outcome'[w] = outcome[w]) =>
            idx'[w] = idx[w] /\ wpc'[w] # "returned"
       /\ wpc'[w] = "returned" =>
            /\ Len(outcome'[w]) = Len(batch'[w])
            /\ \A i \in DOMAIN outcome'[w] : outcome'[w][i] \in Terminal
  ]_vars

\* An invocation returned from a batch of two records whose first record
\* failed in the pipeline and whose second was completed.
C30_Witness ==
  \E w \in Workers :
    /\ wpc[w] = "returned"
    /\ Len(batch[w]) = 2
    /\ outcome[w] = <<"failed", "completed">>
    /\ table[batch[w][2].jobId].status = "completed"

====
